---- MODULE Spec2Model ----
(***************************************************************************)
(* CreateIssueImport of internal/storage/sqlite/import_tx.go: the creation *)
(* of one issue inside a sqlite transaction the caller opened.             *)
(*                                                                         *)
(* Strings that carry structure are modelled by that structure: an issue   *)
(* ID and a prefix are the sequence of their "-"-separated tokens          *)
(* ("bd-r-1" is <<"bd","r","1">>, "" is <<>>), so prefix + "-" + x is      *)
(* Append(prefix, x) and strings.HasPrefix(id, prefix + "-") is "prefix is *)
(* a proper initial segment of id".  A *time.Time is <<>> (nil) or <<t>>;  *)
(* a time.Time is a natural number with 0 the zero time.                   *)
(***************************************************************************)
EXTENDS Integers, Sequences, FiniteSets, TLC

VARIABLES
    config,   \* the config table: issue_prefix row and custom vocabularies
    db,       \* the committed store: what every connection sees
    lock,     \* the transaction holding sqlite's write lock, 0 when free
    tx,       \* per transaction: its state, its snapshot, its view (t.conn)
    call      \* per transaction: its latest CreateIssueImport call

vars == <<config, db, lock, tx, call>>

(***************************************************************************)
(* Bounds                                                                  *)
(***************************************************************************)
Now == 2            \* what time.Now() returns
MaxKey == 2         \* keys the identifier generator can hand out per prefix
MaxRows == 2        \* rows a transaction may see before its last call
MaxIssueRows == 1   \* the same, where the issue values vary widely
MaxConcRows == 2    \* the same, with two concurrent transactions

TxIds == {1, 2}

(***************************************************************************)
(* Values                                                                  *)
(***************************************************************************)
NilTime == <<>>
Nil == "nil"

StatusOpen == "open"
StatusClosed == "closed"
StatusTombstone == "tombstone"
BuiltinStatuses == {StatusOpen, StatusClosed, StatusTombstone}
BuiltinTypes == {"task"}

ErrStatuses == "failed to get custom statuses"
ErrTypes == "failed to get custom types"
ErrValidation == "validation failed"
ErrNotInitialized == "database not initialized: issue_prefix config is missing"
ErrConfig == "failed to get config"
ErrGenerate == "failed to generate issue ID"
ErrPrefix == "failed to validate issue ID prefix"
ErrInsert == "failed to insert issue"
ErrEvent == "failed to record creation event"
ErrDirty == "failed to mark issue dirty"

\* sql.ErrNoRows, and any other error of the storage layer
ErrNoRows == "sql: no rows in result set"
ErrStorage == "storage error"

\* The step of the call at which the storage layer fails, when reached.
Faults ==
    {"none", "statuses", "types", "config", "configclose", "generate",
     "insert", "event", "dirty"}

EmptyStore == [rows |-> {}, events |-> <<>>, dirty |-> {}]

(***************************************************************************)
(* Collaborators of CreateIssueImport (not part of import_tx.go)           *)
(***************************************************************************)

\* GetCustomStatuses / GetCustomTypes: the vocabulary of the config table,
\* read fresh, or a storage error.
GetCustomStatuses(c) ==
    IF c.fault = "statuses" THEN [err |-> ErrStorage, value |-> {}]
    ELSE [err |-> Nil, value |-> c.config.statuses]

GetCustomTypes(c) ==
    IF c.fault = "types" THEN [err |-> ErrStorage, value |-> {}]
    ELSE [err |-> Nil, value |-> c.config.types]

\* issue.ValidateWithCustom: status and type belong to the built-in or the
\* custom vocabulary.
ValidateWithCustom(issue, customStatuses, customTypes) ==
    /\ issue.Status \in BuiltinStatuses \cup customStatuses
    /\ issue.IssueType \in BuiltinTypes \cup customTypes

\* issue.ComputeContentHash: a function of the semantic fields.
ComputeContentHash(issue) == <<"sha256", issue.Status, issue.IssueType>>

\* conn.QueryRowContext(SELECT value FROM config WHERE key = 'issue_prefix')
\* .Scan(&configPrefix) of database/sql: ErrNoRows when there is no row; an
\* error of the query leaves configPrefix "" ; an error of closing the rows
\* comes after the value was assigned.
ScanIssuePrefix(c) ==
    IF c.fault = "config" THEN [err |-> ErrStorage, value |-> <<>>]
    ELSE IF c.config.issue_prefix = <<>> THEN [err |-> ErrNoRows, value |-> <<>>]
    ELSE IF c.fault = "configclose"
         THEN [err |-> ErrStorage, value |-> c.config.issue_prefix[1]]
    ELSE [err |-> Nil, value |-> c.config.issue_prefix[1]]

IdsOf(store) == {r.id : r \in store.rows}

\* GenerateIssueID: the first key under the prefix that no row visible on the
\* connection uses; fails when the keys are exhausted or the storage fails.
FreeKeys(conn, prefix) ==
    {k \in 1..MaxKey : Append(prefix, ToString(k)) \notin IdsOf(conn)}

GenerateIssueID(conn, prefix, fault) ==
    IF fault = "generate" \/ FreeKeys(conn, prefix) = {}
    THEN [err |-> ErrStorage, value |-> <<>>]
    ELSE [err |-> Nil,
          value |-> Append(prefix,
                      ToString(CHOOSE k \in FreeKeys(conn, prefix) :
                                 \A j \in FreeKeys(conn, prefix) : k <= j))]

\* ValidateIssueIDPrefix: strings.HasPrefix(id, prefix + "-").
ValidateIssueIDPrefix(id, prefix) ==
    /\ Len(id) > Len(prefix)
    /\ SubSeq(id, 1, Len(prefix)) = prefix

\* The columns of an issues row the properties below observe.
RowOf(issue) ==
    [id |-> issue.ID, status |-> issue.Status,
     closed_at |-> issue.ClosedAt, deleted_at |-> issue.DeletedAt]

\* insertIssueStrict: a plain INSERT.  It fails when the storage fails, when
\* the write lock cannot be had (another transaction holds it, or the
\* transaction's snapshot is stale), or when a row with the ID is visible.
InsertIssueStrict(conn, issue, fault, busy) ==
    IF fault = "insert" \/ busy \/ issue.ID \in IdsOf(conn)
    THEN [err |-> ErrStorage, conn |-> conn]
    ELSE [err |-> Nil,
          conn |-> [conn EXCEPT !.rows = @ \cup {RowOf(issue)}]]

\* recordCreatedEvent: one "created" row appended to the events table.
RecordCreatedEvent(conn, issue, actor, fault) ==
    IF fault = "event" THEN [err |-> ErrStorage, conn |-> conn]
    ELSE [err |-> Nil,
          conn |-> [conn EXCEPT !.events =
                      Append(@, [issue_id |-> issue.ID,
                                 event_type |-> "created",
                                 actor |-> actor])]]

\* markDirty: the issue ID put into the dirty_issues set.
MarkDirty(conn, id, fault) ==
    IF fault = "dirty" THEN [err |-> ErrStorage, conn |-> conn]
    ELSE [err |-> Nil, conn |-> [conn EXCEPT !.dirty = @ \cup {id}]]

(***************************************************************************)
(* CreateIssueImport, statement by statement.  A call is a record c: the   *)
(* caller's issue (mutated in place through the pointer), the arguments,   *)
(* the locals, the error returned so far, and the two stores the method    *)
(* can reach: conn, the transaction's connection t.conn, and db, the       *)
(* database outside the transaction.  in, pre, preDb and trace record the  *)
(* issue as passed, the content of the two stores at entry and the         *)
(* statements run.                                                         *)
(***************************************************************************)
Fail(c, msg, cause) == [c EXCEPT !.err = msg, !.cause = cause]

Ran(c, name) == [c EXCEPT !.trace = Append(@, name)]

\* lines 16-19
FetchStatuses(c) ==
    LET r == GetCustomStatuses(c)
        d == Ran(c, "statuses")
    IN  IF r.err # Nil THEN Fail(d, ErrStatuses, r.err)
        ELSE [d EXCEPT !.customStatuses = r.value]

\* a types fetch whose error is dropped: validation against no custom types
FetchTypesIgnored(c) ==
    LET r == GetCustomTypes(c)
        d == Ran(c, "types")
    IN  [d EXCEPT !.customTypes = r.value]

\* lines 20-23
FetchTypes(c) ==
    LET r == GetCustomTypes(c)
        d == Ran(c, "types")
    IN  IF r.err # Nil THEN Fail(d, ErrTypes, r.err)
        ELSE [d EXCEPT !.customTypes = r.value]

\* the two timestamps defaulted only together
SetTimestampsBothOrNone(c) ==
    LET d == Ran(c, "timestamps")
    IN  IF c.issue.CreatedAt = 0 /\ c.issue.UpdatedAt = 0
        THEN [d EXCEPT !.issue.CreatedAt = Now, !.issue.UpdatedAt = Now]
        ELSE d

\* lines 26-32: each of the two timestamps is defaulted on its own
SetTimestamps(c) ==
    LET d == Ran(c, "timestamps")
        created == IF c.issue.CreatedAt = 0 THEN Now ELSE c.issue.CreatedAt
        updated == IF c.issue.UpdatedAt = 0 THEN Now ELSE c.issue.UpdatedAt
    IN  [d EXCEPT !.issue.CreatedAt = created, !.issue.UpdatedAt = updated]

\* lines 36-40 and 45-49
MaxTimePlusSecond(issue) ==
    LET maxTime == IF issue.UpdatedAt > issue.CreatedAt
                   THEN issue.UpdatedAt ELSE issue.CreatedAt
    IN  maxTime + 1

FixClosedAtCreatedOnly(c) ==
    LET d == Ran(c, "closed_at")
    IN  IF c.issue.Status = StatusClosed /\ c.issue.ClosedAt = NilTime
        THEN [d EXCEPT !.issue.ClosedAt = <<c.issue.CreatedAt + 1>>]
        ELSE d

FixClosedAtSkipped(c) == Ran(c, "closed_at")

\* lines 34-42
FixClosedAt(c) ==
    LET d == Ran(c, "closed_at")
    IN  IF c.issue.Status = StatusClosed /\ c.issue.ClosedAt = NilTime
        THEN [d EXCEPT !.issue.ClosedAt = <<MaxTimePlusSecond(c.issue)>>]
        ELSE d

FixDeletedAtCreatedOnly(c) ==
    LET d == Ran(c, "deleted_at")
    IN  IF c.issue.Status = StatusTombstone /\ c.issue.DeletedAt = NilTime
        THEN [d EXCEPT !.issue.DeletedAt = <<c.issue.CreatedAt + 1>>]
        ELSE d

\* lines 43-51
FixDeletedAt(c) ==
    LET d == Ran(c, "deleted_at")
    IN  IF c.issue.Status = StatusTombstone /\ c.issue.DeletedAt = NilTime
        THEN [d EXCEPT !.issue.DeletedAt = <<MaxTimePlusSecond(c.issue)>>]
        ELSE d

\* a validation that looks at the status only
ValidateStepStatusOnly(c) ==
    LET d == Ran(c, "validate")
    IN  IF c.issue.Status \notin BuiltinStatuses \cup c.customStatuses
        THEN Fail(d, ErrValidation, "invalid issue")
        ELSE d

\* lines 53-56
ValidateStep(c) ==
    LET d == Ran(c, "validate")
    IN  IF ~ValidateWithCustom(c.issue, c.customStatuses, c.customTypes)
        THEN Fail(d, ErrValidation, "invalid issue")
        ELSE d

\* a hash that is recomputed whatever the caller supplied
HashStepAlways(c) ==
    [Ran(c, "hash") EXCEPT !.issue.ContentHash = ComputeContentHash(c.issue)]

\* lines 58-61
HashStep(c) ==
    LET d == Ran(c, "hash")
    IN  IF c.issue.ContentHash = <<>>
        THEN [d EXCEPT !.issue.ContentHash = ComputeContentHash(c.issue)]
        ELSE d

ReadConfigNoRowsOnly(c) ==
    LET r == ScanIssuePrefix(c)
        d == [Ran(c, "config") EXCEPT !.configPrefix = r.value]
    IN  IF r.err = ErrNoRows THEN Fail(d, ErrNotInitialized, Nil)
        ELSE IF r.err # Nil THEN Fail(d, ErrConfig, r.err)
        ELSE d

\* lines 63-70
ReadConfig(c) ==
    LET r == ScanIssuePrefix(c)
        d == [Ran(c, "config") EXCEPT !.configPrefix = r.value]
    IN  IF r.err = ErrNoRows \/ r.value = <<>>
        THEN Fail(d, ErrNotInitialized, Nil)
        ELSE IF r.err # Nil THEN Fail(d, ErrConfig, r.err)
        ELSE d

EffectivePrefixBaseOnly(configPrefix, idPrefix) == configPrefix

\* lines 72-75
EffectivePrefix(configPrefix, idPrefix) ==
    IF idPrefix # "" THEN Append(configPrefix, idPrefix) ELSE configPrefix

PrefixStep(c) ==
    [Ran(c, "prefix") EXCEPT
        !.prefix = EffectivePrefix(c.configPrefix, c.issue.IDPrefix)]

ResolveIDNeverValidates(c) ==
    IF c.issue.ID = <<>>
    THEN LET r == GenerateIssueID(c.conn, c.prefix, c.fault)
             d == Ran(c, "generate")
         IN  IF r.err # Nil THEN Fail(d, ErrGenerate, r.err)
             ELSE [d EXCEPT !.issue.ID = r.value]
    ELSE c

ResolveIDAlwaysValidates(c) ==
    IF c.issue.ID = <<>>
    THEN LET r == GenerateIssueID(c.conn, c.prefix, c.fault)
             d == Ran(c, "generate")
         IN  IF r.err # Nil THEN Fail(d, ErrGenerate, r.err)
             ELSE [d EXCEPT !.issue.ID = r.value]
    ELSE LET d == Ran(c, "validate_prefix")
         IN  IF ~ValidateIssueIDPrefix(c.issue.ID, c.prefix)
             THEN Fail(d, ErrPrefix, "prefix mismatch")
             ELSE d

\* an ID resolution that the flag switches off as a whole
ResolveIDSkipFirst(c) ==
    IF c.skipPrefixValidation THEN c
    ELSE IF c.issue.ID = <<>>
    THEN LET r == GenerateIssueID(c.conn, c.prefix, c.fault)
             d == Ran(c, "generate")
         IN  IF r.err # Nil THEN Fail(d, ErrGenerate, r.err)
             ELSE [d EXCEPT !.issue.ID = r.value]
    ELSE LET d == Ran(c, "validate_prefix")
         IN  IF ~ValidateIssueIDPrefix(c.issue.ID, c.prefix)
             THEN Fail(d, ErrPrefix, "prefix mismatch")
             ELSE d

\* lines 77-88
ResolveID(c) ==
    IF c.issue.ID = <<>>
    THEN LET r == GenerateIssueID(c.conn, c.prefix, c.fault)
             d == Ran(c, "generate")
         IN  IF r.err # Nil THEN Fail(d, ErrGenerate, r.err)
             ELSE [d EXCEPT !.issue.ID = r.value]
    ELSE IF ~c.skipPrefixValidation
    THEN LET d == Ran(c, "validate_prefix")
         IN  IF ~ValidateIssueIDPrefix(c.issue.ID, c.prefix)
             THEN Fail(d, ErrPrefix, "prefix mismatch")
             ELSE d
    ELSE c

\* an insert that goes to the database outside the transaction
InsertStepOutsideTx(c) ==
    LET r == InsertIssueStrict(c.db, c.issue, c.fault, FALSE)
        d == Ran(c, "insert")
    IN  IF r.err # Nil THEN Fail(d, ErrInsert, r.err)
        ELSE [d EXCEPT !.db = r.conn]

\* an insert that is not strict: the row is written whatever is there
InsertStepNotStrict(c) ==
    LET d == Ran(c, "insert")
    IN  IF c.fault = "insert" \/ c.busy THEN Fail(d, ErrInsert, ErrStorage)
        ELSE [d EXCEPT !.conn.rows = @ \cup {RowOf(c.issue)}, !.locked = TRUE]

\* lines 98-101
InsertStep(c) ==
    LET r == InsertIssueStrict(c.conn, c.issue, c.fault, c.busy)
        d == Ran(c, "insert")
    IN  IF r.err # Nil THEN Fail(d, ErrInsert, r.err)
        ELSE [d EXCEPT !.conn = r.conn, !.locked = TRUE]

\* an event write whose error is dropped
EventStepSwallowed(c) ==
    LET r == RecordCreatedEvent(c.conn, c.issue, c.actor, c.fault)
        d == Ran(c, "event")
    IN  [d EXCEPT !.conn = r.conn]

\* lines 102-105
EventStep(c) ==
    LET r == RecordCreatedEvent(c.conn, c.issue, c.actor, c.fault)
        d == Ran(c, "event")
    IN  IF r.err # Nil THEN Fail(d, ErrEvent, r.err)
        ELSE [d EXCEPT !.conn = r.conn]

\* a dirty-marker write whose error is dropped
DirtyStepSwallowed(c) ==
    LET r == MarkDirty(c.conn, c.issue.ID, c.fault)
        d == Ran(c, "dirty")
    IN  [d EXCEPT !.conn = r.conn]

\* lines 106-109
DirtyStep(c) ==
    LET r == MarkDirty(c.conn, c.issue.ID, c.fault)
        d == Ran(c, "dirty")
    IN  IF r.err # Nil THEN Fail(d, ErrDirty, r.err)
        ELSE [d EXCEPT !.conn = r.conn]

StepNames ==
    <<"statuses", "types", "timestamps", "closed_at", "deleted_at",
      "validate", "hash", "config", "prefix", "resolve", "insert", "event",
      "dirty">>

\* the statements with the event written before the row
StepAtEventFirst(i, c) ==
    CASE StepNames[i] = "statuses" -> FetchStatuses(c)
      [] StepNames[i] = "types" -> FetchTypes(c)
      [] StepNames[i] = "timestamps" -> SetTimestamps(c)
      [] StepNames[i] = "closed_at" -> FixClosedAt(c)
      [] StepNames[i] = "deleted_at" -> FixDeletedAt(c)
      [] StepNames[i] = "validate" -> ValidateStep(c)
      [] StepNames[i] = "hash" -> HashStep(c)
      [] StepNames[i] = "config" -> ReadConfig(c)
      [] StepNames[i] = "prefix" -> PrefixStep(c)
      [] StepNames[i] = "resolve" -> ResolveID(c)
      [] StepNames[i] = "insert" -> EventStep(c)
      [] StepNames[i] = "event" -> InsertStep(c)
      [] StepNames[i] = "dirty" -> DirtyStep(c)

StepAt(i, c) ==
    CASE StepNames[i] = "statuses" -> FetchStatuses(c)
      [] StepNames[i] = "types" -> FetchTypes(c)
      [] StepNames[i] = "timestamps" -> SetTimestamps(c)
      [] StepNames[i] = "closed_at" -> FixClosedAt(c)
      [] StepNames[i] = "deleted_at" -> FixDeletedAt(c)
      [] StepNames[i] = "validate" -> ValidateStep(c)
      [] StepNames[i] = "hash" -> HashStep(c)
      [] StepNames[i] = "config" -> ReadConfig(c)
      [] StepNames[i] = "prefix" -> PrefixStep(c)
      [] StepNames[i] = "resolve" -> ResolveID(c)
      [] StepNames[i] = "insert" -> InsertStep(c)
      [] StepNames[i] = "event" -> EventStep(c)
      [] StepNames[i] = "dirty" -> DirtyStep(c)

\* The statements in order; every "if err != nil { return ... }" ends the call.
RECURSIVE RunFrom(_, _)
RunFrom(i, c) ==
    IF i > Len(StepNames) \/ c.err # Nil THEN c
    ELSE RunFrom(i + 1, StepAt(i, c))

\* lines 14-111
CreateIssueImport(c) == [RunFrom(1, c) EXCEPT !.pc = "returned"]

(***************************************************************************)
(* The caller: transactions over the store                                 *)
(*                                                                         *)
(* sqlite gives a transaction a snapshot of the committed store and lets   *)
(* one transaction write at a time: a write needs the write lock, which a  *)
(* transaction gets only while nobody holds it and its snapshot is still   *)
(* the committed store.  The caller begins the transaction, calls          *)
(* CreateIssueImport once per issue, commits after success and rolls back  *)
(* after a failed call.                                                    *)
(***************************************************************************)
NoIssue ==
    [ID |-> <<>>, IDPrefix |-> "", Status |-> StatusOpen, IssueType |-> "task",
     CreatedAt |-> 0, UpdatedAt |-> 0, ClosedAt |-> NilTime,
     DeletedAt |-> NilTime, ContentHash |-> <<>>]

NewCall(issue, actor, skip, fault, cfg, conn, store, busy) ==
    [pc |-> "called", issue |-> issue, in |-> issue, actor |-> actor,
     skipPrefixValidation |-> skip, fault |-> fault, config |-> cfg,
     err |-> Nil, cause |-> Nil, trace |-> <<>>,
     customStatuses |-> {}, customTypes |-> {},
     configPrefix |-> <<>>, prefix |-> <<>>,
     conn |-> conn, pre |-> conn, db |-> store, preDb |-> store,
     busy |-> busy,
     locked |-> FALSE]

NoCall ==
    [NewCall(NoIssue, "", FALSE, "none", [issue_prefix |-> <<>>,
             statuses |-> {}, types |-> {}], EmptyStore, EmptyStore, FALSE)
     EXCEPT !.pc = "none"]

IdleTx == [st |-> "idle", snap |-> EmptyStore, conn |-> EmptyStore]

(***************************************************************************)
(* Inputs                                                                  *)
(***************************************************************************)
Times == {0, Now - 1, Now + 1}
Statuses == BuiltinStatuses \cup {"review"}
Types == BuiltinTypes \cup {"spike"}
ExplicitIDs == {<<"bd", "1">>, <<"bd", "r", "1">>, <<"zz", "1">>}
Actors == {"importer"}

Configs ==
    [issue_prefix : {<<>>, << <<>> >>, << <<"bd">> >>},
     statuses : {{}, {"review"}},
     types : {{}}]
    \cup
    [issue_prefix : {<< <<"bd">> >>}, statuses : {{"review"}},
     types : {{"spike"}}]

\* An issue that varies in what the in-memory statements read (timestamps,
\* status, type, hash), without an ID.
TemporalInput(s, ty, cr, up, cl, de, h, f) ==
    [issue |-> [NoIssue EXCEPT !.Status = s, !.IssueType = ty,
                               !.CreatedAt = cr, !.UpdatedAt = up,
                               !.ClosedAt = cl, !.DeletedAt = de,
                               !.ContentHash = h],
     skip |-> FALSE, fault |-> f]

\* An issue that varies in what the identifier and storage statements read.
IdentInput(id, ip, s, sk, f) ==
    [issue |-> [NoIssue EXCEPT !.ID = id, !.IDPrefix = ip, !.Status = s,
                               !.CreatedAt = Now - 1, !.UpdatedAt = Now - 1],
     skip |-> sk, fault |-> f]

\* An issue that varies in the fields a caller may supply or leave out.
SuppliedInput(id, s, tm, cl, de, h, sk, f) ==
    [issue |-> [NoIssue EXCEPT !.ID = id, !.Status = s,
                               !.CreatedAt = tm, !.UpdatedAt = tm,
                               !.ClosedAt = cl, !.DeletedAt = de,
                               !.ContentHash = h],
     skip |-> sk, fault |-> f]

ConcInput(id, s) ==
    [issue |-> [NoIssue EXCEPT !.ID = id, !.Status = s],
     skip |-> FALSE, fault |-> "none"]

(***************************************************************************)
(* Actions                                                                 *)
(***************************************************************************)
Init ==
    /\ config \in Configs
    /\ db = EmptyStore
    /\ lock = 0
    /\ tx = [t \in TxIds |-> IdleTx]
    /\ call = [t \in TxIds |-> NoCall]

\* BEGIN: the transaction's connection sees the committed store.
Begin(t) ==
    /\ tx[t].st = "idle"
    /\ tx' = [tx EXCEPT ![t] = [st |-> "open", snap |-> db, conn |-> db]]
    /\ call' = [call EXCEPT ![t] = NoCall]
    /\ UNCHANGED <<config, db, lock>>

\* What the caller keeps of a call once its transaction has ended.
Outcome(c, pc) ==
    [NoCall EXCEPT !.pc = pc, !.err = c.err, !.trace = c.trace]

CanCall(t, maxRows) ==
    /\ tx[t].st = "open"
    /\ Cardinality(tx[t].conn.rows) < maxRows
    /\ call[t].pc = "none" \/ (call[t].pc = "returned" /\ call[t].err = Nil)

Busy(t) == lock \notin {0, t} \/ (lock = 0 /\ tx[t].snap # db)

\* t.CreateIssueImport(ctx, issue, actor, skipPrefixValidation), made by a
\* caller for whom CanCall holds
Call(t, in, actor) ==
    /\ LET c == CreateIssueImport(
                    NewCall(in.issue, actor, in.skip, in.fault, config,
                            tx[t].conn, db, Busy(t)))
       IN  /\ call' = [call EXCEPT ![t] = c]
           /\ tx' = [tx EXCEPT ![t].conn = c.conn]
           /\ db' = c.db
           /\ lock' = IF c.locked THEN t ELSE lock
    /\ UNCHANGED config

\* COMMIT after a call that returned nil.
Commit(t) ==
    /\ tx[t].st = "open"
    /\ call[t].pc = "returned" /\ call[t].err = Nil
    /\ db' = IF lock = t THEN tx[t].conn ELSE db
    /\ lock' = IF lock = t THEN 0 ELSE lock
    /\ tx' = [tx EXCEPT ![t].st = "idle"]
    /\ call' = [call EXCEPT ![t] = Outcome(call[t], "committed")]
    /\ UNCHANGED config

\* ROLLBACK after a call that returned an error.
Rollback(t) ==
    /\ tx[t].st = "open"
    /\ call[t].pc = "returned" /\ call[t].err # Nil
    /\ lock' = IF lock = t THEN 0 ELSE lock
    /\ tx' = [tx EXCEPT ![t].st = "idle", ![t].conn = tx[t].snap]
    /\ call' = [call EXCEPT ![t] = Outcome(call[t], "rolledback")]
    /\ UNCHANGED <<config, db>>

\* One transaction at a time, issues that vary in IDs and storage faults.
Next ==
    \/ Begin(1)
    \/ /\ CanCall(1, MaxRows)
       /\ \E id \in ExplicitIDs \cup {<<>>}, ip \in {"", "r"},
             s \in {StatusOpen, StatusClosed, "review"}, sk \in BOOLEAN,
             f \in Faults, a \in Actors :
             Call(1, IdentInput(id, ip, s, sk, f), a)
    \/ Commit(1)
    \/ Rollback(1)

Spec == Init /\ [][Next]_vars

\* One transaction at a time and one call per transaction, issues that vary
\* in timestamps and vocabulary.
NextIssue ==
    \/ Begin(1)
    \/ /\ CanCall(1, MaxIssueRows)
       /\ call[1].pc = "none"
       /\ \E s \in Statuses, ty \in Types, cr \in Times, up \in Times,
             cl \in {NilTime, <<1>>}, de \in {NilTime, <<1>>},
             h \in {<<>>, <<"h0">>}, f \in Faults, a \in Actors :
             Call(1, TemporalInput(s, ty, cr, up, cl, de, h, f), a)
    \/ Commit(1)
    \/ Rollback(1)

SpecIssue == Init /\ [][NextIssue]_vars

\* One transaction at a time and one call per transaction, issues that vary
\* in which fields arrive filled in.
NextSupplied ==
    \/ Begin(1)
    \/ /\ CanCall(1, MaxIssueRows)
       /\ call[1].pc = "none"
       /\ \E id \in {<<>>, <<"bd", "1">>, <<"zz", "1">>}, s \in Statuses,
             tm \in {0, Now + 1}, cl \in {NilTime, <<1>>},
             de \in {NilTime, <<1>>}, h \in {<<>>, <<"h0">>},
             sk \in BOOLEAN, f \in Faults, a \in Actors :
             Call(1, SuppliedInput(id, s, tm, cl, de, h, sk, f), a)
    \/ Commit(1)
    \/ Rollback(1)

SpecSupplied == Init /\ [][NextSupplied]_vars

\* Two transactions side by side.
NextConc ==
    \/ \E t \in TxIds : Begin(t)
    \/ \E t \in TxIds :
          /\ CanCall(t, MaxConcRows)
          /\ \E id \in {<<>>, <<"bd", "1">>},
                s \in {StatusOpen, StatusClosed}, a \in Actors :
                Call(t, ConcInput(id, s), a)
    \/ \E t \in TxIds : Commit(t)
    \/ \E t \in TxIds : Rollback(t)

SpecConc == Init /\ [][NextConc]_vars

(***************************************************************************)
(* Properties                                                              *)
(***************************************************************************)
Returned(c) == c.pc = "returned"
InTrace(c, name) == \E i \in DOMAIN c.trace : c.trace[i] = name
HasRow(store, id) == id \in IdsOf(store)
CreatedEvents(store, id) ==
    Cardinality({i \in DOMAIN store.events :
                    /\ store.events[i].issue_id = id
                    /\ store.events[i].event_type = "created"})
EventIds(store) == {store.events[i].issue_id : i \in DOMAIN store.events}
KnownIds(store) == IdsOf(store) \cup EventIds(store) \cup store.dirty

\* C1: in the committed store an issue row exists exactly when one "created"
\* event and the dirty marker of its ID exist; without the row there is
\* neither an event nor a marker.
C1_WritesVisibleTogether ==
    \A id \in KnownIds(db) :
        /\ HasRow(db, id) => CreatedEvents(db, id) = 1 /\ id \in db.dirty
        /\ ~HasRow(db, id) => CreatedEvents(db, id) = 0 /\ id \notin db.dirty

\* a commit of two calls and, before it, a rolled back transaction
C1_Witness ==
    /\ Cardinality(db.rows) = 2
    /\ Len(db.events) = 2
    /\ call[1].pc = "committed"

\* C2: once a call has returned an error and the caller has rolled back, the
\* committed store is what it was when the transaction began: no row, event
\* or marker of the call remains.
C2_NothingRemainsAfterRollback ==
    \A t \in TxIds :
        call[t].pc = "rolledback" =>
            /\ call[t].err # Nil
            /\ db = tx[t].snap
            /\ tx[t].conn = tx[t].snap

\* a dirty-marker write failed after the row and the event were written
C2_Witness ==
    /\ call[1].pc = "rolledback"
    /\ call[1].err = ErrDirty
    /\ InTrace(call[1], "insert") /\ InTrace(call[1], "event")
    /\ db.rows # {}

Stores == {db} \cup {tx[t].conn : t \in TxIds}

\* C3: every stored row with status closed has a closed_at, and every stored
\* row with status tombstone has a deleted_at.
C3_StoredRowsKeepTemporalInvariants ==
    \A store \in Stores : \A r \in store.rows :
        /\ r.status = StatusClosed => r.closed_at # NilTime
        /\ r.status = StatusTombstone => r.deleted_at # NilTime

\* a closed issue that arrived without ClosedAt has been stored
C3_Witness ==
    /\ Returned(call[1]) /\ call[1].err = Nil
    /\ call[1].in.Status = StatusClosed /\ call[1].in.ClosedAt = NilTime
    /\ RowOf(call[1].issue) \in tx[1].conn.rows

\* The call was made with an explicit ID that the connection already held.
RepeatsExplicitID(c) ==
    /\ Returned(c)
    /\ c.in.ID # <<>>
    /\ ~c.skipPrefixValidation
    /\ HasRow(c.pre, c.in.ID)

ErrorsBeforeIDResolution ==
    {ErrStatuses, ErrTypes, ErrValidation, ErrNotInitialized, ErrConfig}

\* C4 as stated, and only for calls in which the storage never fails: a call
\* with an explicit ID already stored fails with the insert error and leaves
\* rows, events and markers as they were.
C4_Original ==
    \A t \in TxIds :
        RepeatsExplicitID(call[t]) /\ call[t].fault = "none" =>
            /\ call[t].err = ErrInsert
            /\ call[t].conn = call[t].pre

\* C4: a call with an explicit ID already stored (no skip) never succeeds and
\* leaves rows, events and markers as they were; its error is the insert
\* error unless an earlier statement (vocabulary fetch, validation, config
\* read, prefix validation) failed first.
C4_SecondCallFails ==
    \A t \in TxIds :
        RepeatsExplicitID(call[t]) =>
            /\ call[t].err \in
                 ErrorsBeforeIDResolution \cup {ErrPrefix, ErrInsert}
            /\ InTrace(call[t], "insert") <=> call[t].err = ErrInsert
            /\ call[t].conn = call[t].pre
            /\ tx[t].conn = call[t].pre
            /\ db = call[t].preDb

\* the second call collides, with a row that differs from the stored one
C4_Witness ==
    /\ RepeatsExplicitID(call[1])
    /\ call[1].fault = "none"
    /\ call[1].err = ErrInsert
    /\ RowOf(call[1].issue) \notin call[1].pre.rows
    /\ CreatedEvents(tx[1].conn, call[1].in.ID) = 1

UniqueIds(store) ==
    \A r1 \in store.rows, r2 \in store.rows : r1.id = r2.id => r1 = r2

\* C5: no store, committed or seen by a transaction, holds two rows with the
\* same ID, however the calls of two transactions interleave.
C5_IdsUnique == \A store \in Stores : UniqueIds(store)

\* a transaction resolved the ID another transaction committed meanwhile,
\* and its insert was refused
C5_Witness ==
    \E t \in TxIds, u \in TxIds :
        /\ t # u
        /\ call[u].pc = "committed"
        /\ Returned(call[t])
        /\ call[t].in.ID = <<>>
        /\ call[t].err = ErrInsert
        /\ HasRow(db, call[t].issue.ID)
        /\ ~HasRow(call[t].pre, call[t].issue.ID)

\* The effective prefix of the design: the base namespace, or
\* base + "-" + IDPrefix when the issue carries a sub-namespace token.
ClaimedPrefix(base, idPrefix) ==
    IF idPrefix = "" THEN base ELSE base \o <<idPrefix>>

IsUnder(id, prefix) ==
    /\ Len(id) > Len(prefix)
    /\ \A i \in 1..Len(prefix) : id[i] = prefix[i]

PrefixMissing(c) == c.config.issue_prefix \in {<<>>, << <<>> >>}

NoIDLogic(c) ==
    ~InTrace(c, "generate") /\ ~InTrace(c, "validate_prefix")

NoWrites(c) ==
    /\ ~InTrace(c, "insert") /\ ~InTrace(c, "event") /\ ~InTrace(c, "dirty")
    /\ c.conn = c.pre
    /\ c.db = c.preDb

\* C6 as stated, and only for calls in which the storage never fails: with
\* the issue_prefix key missing or empty every call fails with the
\* uninitialized-store error, before any ID logic and any write.
C6_Original ==
    \A t \in TxIds :
        /\ Returned(call[t]) /\ PrefixMissing(call[t])
        /\ call[t].fault = "none"
        =>
            /\ call[t].err = ErrNotInitialized
            /\ NoIDLogic(call[t])
            /\ NoWrites(call[t])

\* C6: with the issue_prefix key missing or empty every call fails before
\* any ID generation, prefix validation and write; the error is the
\* uninitialized-store error whenever the call gets as far as reading the
\* configuration, and otherwise that of the vocabulary fetch or validation
\* that failed first.
C6_MissingPrefixFailsBeforeWrites ==
    \A t \in TxIds :
        Returned(call[t]) /\ PrefixMissing(call[t]) =>
            /\ call[t].err \in
                 {ErrStatuses, ErrTypes, ErrValidation, ErrNotInitialized}
            /\ InTrace(call[t], "config") <=> call[t].err = ErrNotInitialized
            /\ NoIDLogic(call[t])
            /\ NoWrites(call[t])
            /\ call[t].issue.ID = call[t].in.ID

\* the key is there with an empty value, and the call is refused
C6_Witness ==
    /\ Returned(call[1])
    /\ call[1].config.issue_prefix = << <<>> >>
    /\ call[1].fault = "none"
    /\ call[1].in.ID = <<>>
    /\ call[1].err = ErrNotInitialized

\* The issue carries an ID that is not under the effective prefix.
MismatchedID(c) ==
    /\ Returned(c)
    /\ ~PrefixMissing(c)
    /\ c.in.ID # <<>>
    /\ ~IsUnder(c.in.ID,
                ClaimedPrefix(c.config.issue_prefix[1], c.in.IDPrefix))

\* C7 as stated, and only for calls in which the storage never fails: a
\* mismatching ID without skipPrefixValidation makes the call fail with the
\* prefix-validation error, nothing written.
C7_Original ==
    \A t \in TxIds :
        /\ MismatchedID(call[t]) /\ ~call[t].skipPrefixValidation
        /\ call[t].fault = "none"
        =>
            /\ call[t].err = ErrPrefix
            /\ NoWrites(call[t])

\* C7: a mismatching ID without skipPrefixValidation makes the call fail
\* with nothing written; the error is the prefix-validation error unless a
\* vocabulary fetch, validation or the config read failed first.
C7_MismatchRejected ==
    \A t \in TxIds :
        MismatchedID(call[t]) /\ ~call[t].skipPrefixValidation =>
            /\ call[t].err \in ErrorsBeforeIDResolution \cup {ErrPrefix}
            /\ InTrace(call[t], "validate_prefix") <=> call[t].err = ErrPrefix
            /\ NoWrites(call[t])

\* an ID under the base prefix is refused for an issue with a sub-namespace
C7_Witness ==
    /\ MismatchedID(call[1]) /\ ~call[1].skipPrefixValidation
    /\ call[1].in.ID = <<"bd", "1">> /\ call[1].in.IDPrefix = "r"
    /\ call[1].err = ErrPrefix

\* Nothing but the prefix check stands in the way of the call.
NothingElseFails(c) ==
    /\ c.fault = "none"
    /\ ~c.busy
    /\ c.in.Status \in BuiltinStatuses \cup c.config.statuses
    /\ c.in.IssueType \in BuiltinTypes \cup c.config.types
    /\ ~HasRow(c.pre, c.in.ID)

\* C8 as stated, and only for calls in which the storage never fails: a
\* mismatching ID with skipPrefixValidation makes the call succeed, without
\* a prefix check.
C8_Original ==
    \A t \in TxIds :
        /\ MismatchedID(call[t]) /\ call[t].skipPrefixValidation
        /\ call[t].fault = "none"
        =>
            /\ call[t].err = Nil
            /\ ~InTrace(call[t], "validate_prefix")

\* C8: with skipPrefixValidation a mismatching ID is never checked against
\* the prefix and never earns the prefix-validation error; the call succeeds
\* and stores the row under the ID as supplied whenever no other statement
\* fails (storage fault, invalid issue, ID already stored).
C8_SkipBypassesPrefixCheck ==
    \A t \in TxIds :
        MismatchedID(call[t]) /\ call[t].skipPrefixValidation =>
            /\ ~InTrace(call[t], "validate_prefix")
            /\ call[t].err # ErrPrefix
            /\ call[t].issue.ID = call[t].in.ID
            /\ NothingElseFails(call[t]) =>
                 /\ call[t].err = Nil
                 /\ HasRow(call[t].conn, call[t].in.ID)

\* a foreign ID has been stored
C8_Witness ==
    /\ MismatchedID(call[1]) /\ call[1].skipPrefixValidation
    /\ call[1].in.ID = <<"zz", "1">>
    /\ call[1].err = Nil
    /\ HasRow(tx[1].conn, <<"zz", "1">>)

\* C9: an issue that arrives without an ID and is stored got an ID that is
\* one key under the effective prefix, and the row carries that ID.
C9_GeneratedUnderEffectivePrefix ==
    \A t \in TxIds :
        Returned(call[t]) /\ call[t].in.ID = <<>> /\ call[t].err = Nil =>
            LET p == ClaimedPrefix(call[t].config.issue_prefix[1],
                                   call[t].in.IDPrefix)
                id == call[t].issue.ID
            IN  /\ Len(id) = Len(p) + 1
                /\ IsUnder(id, p)
                /\ HasRow(call[t].conn, id)
                /\ ~HasRow(call[t].pre, id)

\* an ID generated under base + "-" + IDPrefix
C9_Witness ==
    /\ Returned(call[1]) /\ call[1].err = Nil
    /\ call[1].in.ID = <<>> /\ call[1].in.IDPrefix = "r"
    /\ call[1].issue.ID = <<"bd", "r", "1">>

Max2(a, b) == IF a >= b THEN a ELSE b

NeedsClosedAt(c) ==
    /\ Returned(c)
    /\ c.in.Status = StatusClosed
    /\ c.in.ClosedAt = NilTime

\* C10 as stated: after any call on a closed issue without ClosedAt, ClosedAt
\* is max(CreatedAt, UpdatedAt) + 1.
C10_Original ==
    \A t \in TxIds :
        NeedsClosedAt(call[t]) =>
            call[t].issue.ClosedAt =
                <<Max2(call[t].issue.CreatedAt, call[t].issue.UpdatedAt) + 1>>

\* C10: after a call on a closed issue without ClosedAt in which both
\* vocabulary fetches succeeded, ClosedAt is max(CreatedAt, UpdatedAt) + 1
\* of the timestamps as defaulted, above both; when a fetch failed the issue
\* is as it was passed.
C10_ClosedAtRepaired ==
    \A t \in TxIds :
        NeedsClosedAt(call[t]) =>
            IF call[t].err \in {ErrStatuses, ErrTypes}
            THEN call[t].issue = call[t].in
            ELSE LET i == call[t].issue
                 IN  /\ i.ClosedAt = <<Max2(i.CreatedAt, i.UpdatedAt) + 1>>
                     /\ i.ClosedAt[1] > i.CreatedAt
                     /\ i.ClosedAt[1] > i.UpdatedAt
                     /\ i.CreatedAt # 0 /\ i.UpdatedAt # 0

\* the repair took UpdatedAt, the later of the two, in a call that then failed
C10_Witness ==
    /\ NeedsClosedAt(call[1])
    /\ call[1].in.CreatedAt = Now - 1 /\ call[1].in.UpdatedAt = Now + 1
    /\ call[1].issue.ClosedAt = <<Now + 2>>
    /\ call[1].err = ErrValidation

NeedsDeletedAt(c) ==
    /\ Returned(c)
    /\ c.in.Status = StatusTombstone
    /\ c.in.DeletedAt = NilTime

\* C11 as stated: after any call on a tombstone without DeletedAt, DeletedAt
\* is max(CreatedAt, UpdatedAt) + 1.
C11_Original ==
    \A t \in TxIds :
        NeedsDeletedAt(call[t]) =>
            call[t].issue.DeletedAt =
                <<Max2(call[t].issue.CreatedAt, call[t].issue.UpdatedAt) + 1>>

\* C11: after a call on a tombstone without DeletedAt in which both
\* vocabulary fetches succeeded, DeletedAt is max(CreatedAt, UpdatedAt) + 1
\* of the timestamps as defaulted, above both, and ClosedAt is as passed;
\* when a fetch failed the issue is as it was passed.
C11_DeletedAtRepaired ==
    \A t \in TxIds :
        NeedsDeletedAt(call[t]) =>
            IF call[t].err \in {ErrStatuses, ErrTypes}
            THEN call[t].issue = call[t].in
            ELSE LET i == call[t].issue
                 IN  /\ i.DeletedAt = <<Max2(i.CreatedAt, i.UpdatedAt) + 1>>
                     /\ i.DeletedAt[1] > i.CreatedAt
                     /\ i.DeletedAt[1] > i.UpdatedAt
                     /\ i.CreatedAt # 0 /\ i.UpdatedAt # 0
                     /\ i.ClosedAt = call[t].in.ClosedAt

\* the repair took UpdatedAt, the later of the two, and the tombstone was
\* stored with it
C11_Witness ==
    /\ NeedsDeletedAt(call[1])
    /\ call[1].in.CreatedAt = Now - 1 /\ call[1].in.UpdatedAt = Now + 1
    /\ call[1].issue.DeletedAt = <<Now + 2>>
    /\ call[1].err = Nil
    /\ RowOf(call[1].issue) \in tx[1].conn.rows

\* C12 as stated: when either of CreatedAt and UpdatedAt arrives set, both
\* are after the call exactly as supplied.
C12_Original ==
    \A t \in TxIds :
        /\ Returned(call[t])
        /\ call[t].in.CreatedAt # 0 \/ call[t].in.UpdatedAt # 0
        =>
            /\ call[t].issue.CreatedAt = call[t].in.CreatedAt
            /\ call[t].issue.UpdatedAt = call[t].in.UpdatedAt

DefaultedTime(t) == IF t = 0 THEN Now ELSE t

\* C12: in a call whose vocabulary fetches succeeded, CreatedAt becomes the
\* current instant exactly when it arrived zero, and UpdatedAt exactly when
\* it arrived zero, each whatever the other is; a timestamp that arrived set
\* is exactly as supplied; when a fetch failed neither is touched.
C12_TimestampsDefaultedEach ==
    \A t \in TxIds :
        Returned(call[t]) =>
            IF call[t].err \in {ErrStatuses, ErrTypes}
            THEN /\ call[t].issue.CreatedAt = call[t].in.CreatedAt
                 /\ call[t].issue.UpdatedAt = call[t].in.UpdatedAt
            ELSE /\ call[t].issue.CreatedAt =
                        DefaultedTime(call[t].in.CreatedAt)
                 /\ call[t].issue.UpdatedAt =
                        DefaultedTime(call[t].in.UpdatedAt)

\* a historical CreatedAt is kept while the missing UpdatedAt becomes now
C12_Witness ==
    /\ Returned(call[1])
    /\ call[1].in.CreatedAt = Now - 1 /\ call[1].in.UpdatedAt = 0
    /\ call[1].issue.CreatedAt = Now - 1 /\ call[1].issue.UpdatedAt = Now
    /\ call[1].err = Nil

\* The call read the issue_prefix key of a store that has it set, and the
\* read failed with an error of the storage.
ConfigReadFailed(c) ==
    /\ Returned(c)
    /\ ~PrefixMissing(c)
    /\ InTrace(c, "config")
    /\ ScanIssuePrefix(c).err \notin {Nil, ErrNoRows}

\* C13: when the read of the issue_prefix key fails with a storage error (the
\* key itself being set), the call fails with the config-read error wrapping that storage error,
\* and not with the uninitialized-store error.
C13_StorageErrorWrapped ==
    \A t \in TxIds :
        ConfigReadFailed(call[t]) =>
            /\ call[t].err = ErrConfig
            /\ call[t].cause = ErrStorage
            /\ call[t].err # ErrNotInitialized

\* The vocabulary was fetched and the issue's status or type is in neither
\* the built-in nor the custom vocabulary of the config table.
OutsideVocabulary(c) ==
    /\ Returned(c)
    /\ c.fault \notin {"statuses", "types"}
    /\ ~ValidateWithCustom(c.in, c.config.statuses, c.config.types)

RepairedTime(issue, status, supplied) ==
    IF issue.Status = status /\ supplied = NilTime
    THEN <<Max2(issue.CreatedAt, issue.UpdatedAt) + 1>>
    ELSE supplied

\* C14: a call on an issue whose status or type is outside the built-in and
\* freshly fetched custom vocabulary fails with the validation error, which
\* validation is the last statement run: no ID is generated or checked, no
\* row, event or marker is written, and the timestamps are defaulted and
\* ClosedAt/DeletedAt repaired by then.
C14_InvalidIssueRejected ==
    \A t \in TxIds :
        OutsideVocabulary(call[t]) =>
            LET c == call[t]
            IN  /\ c.err = ErrValidation
                /\ c.customStatuses = c.config.statuses
                /\ c.customTypes = c.config.types
                /\ c.trace[Len(c.trace)] = "validate"
                /\ InTrace(c, "closed_at") /\ InTrace(c, "deleted_at")
                /\ NoIDLogic(c)
                /\ NoWrites(c)
                /\ tx[t].conn = c.pre
                /\ c.issue.ID = c.in.ID
                /\ c.issue.ContentHash = c.in.ContentHash
                /\ c.issue.CreatedAt # 0 /\ c.issue.UpdatedAt # 0
                /\ c.issue.ClosedAt =
                     RepairedTime(c.issue, StatusClosed, c.in.ClosedAt)
                /\ c.issue.DeletedAt =
                     RepairedTime(c.issue, StatusTombstone, c.in.DeletedAt)

\* a closed issue of an unknown type is rejected with its ClosedAt repaired
C14_Witness ==
    /\ OutsideVocabulary(call[1])
    /\ call[1].in.IssueType = "spike"
    /\ call[1].in.Status = StatusClosed /\ call[1].in.ClosedAt = NilTime
    /\ call[1].in.CreatedAt = 0
    /\ call[1].issue.ClosedAt = <<Now + 2>>
    /\ call[1].err = ErrValidation

CreatedEventOf(c) ==
    [issue_id |-> c.issue.ID, event_type |-> "created", actor |-> c.actor]

\* The three writes of the call are on the transaction's connection: the
\* issue's row, its "created" event and its dirty marker, all new.
WritesDone(c) ==
    /\ RowOf(c.issue) \notin c.pre.rows
    /\ c.conn.rows = c.pre.rows \cup {RowOf(c.issue)}
    /\ c.conn.events = Append(c.pre.events, CreatedEventOf(c))
    /\ c.issue.ID \notin c.pre.dirty
    /\ c.conn.dirty = c.pre.dirty \cup {c.issue.ID}

\* A collaborator the call reached returned an error.
PhaseFailed(c) ==
    \/ c.fault = "statuses" /\ InTrace(c, "statuses")
    \/ c.fault = "types" /\ InTrace(c, "types")
    \/ InTrace(c, "validate")
         /\ ~ValidateWithCustom(c.issue, c.customStatuses, c.customTypes)
    \/ InTrace(c, "config") /\ ScanIssuePrefix(c).err # Nil
    \/ c.fault = "generate" /\ InTrace(c, "generate")
    \/ InTrace(c, "validate_prefix")
         /\ ~ValidateIssueIDPrefix(c.in.ID, c.prefix)
    \/ InTrace(c, "insert")
         /\ (c.fault = "insert" \/ c.busy \/ HasRow(c.pre, c.issue.ID))
    \/ c.fault = "event" /\ InTrace(c, "event")
    \/ c.fault = "dirty" /\ InTrace(c, "dirty")

\* C15: a call returns nil exactly when the row, the event and the dirty
\* marker are all written on the caller's transaction; nothing is written
\* past the transaction, a phase that failed always yields an error, and a
\* call that wrote only some of the three returns an error.
C15_SuccessIffAllWritten ==
    \A t \in TxIds :
        Returned(call[t]) =>
            LET c == call[t]
            IN  /\ c.err = Nil <=> WritesDone(c)
                /\ PhaseFailed(c) => c.err # Nil
                /\ c.err = Nil =>
                     /\ InTrace(c, "insert")
                     /\ InTrace(c, "event")
                     /\ InTrace(c, "dirty")
                /\ tx[t].conn = c.conn
                /\ c.db = c.preDb

\* the row and the event are written, the marker is not: an error
C15_Witness ==
    /\ Returned(call[1])
    /\ call[1].err = ErrDirty
    /\ HasRow(tx[1].conn, call[1].issue.ID)
    /\ CreatedEvents(tx[1].conn, call[1].issue.ID) = 1
    /\ call[1].issue.ID \notin tx[1].conn.dirty
    /\ Cardinality(call[1].pre.rows) = 1

\* The statements of a call in the order of the source, for its arguments.
StatementsOf(c) ==
    <<"statuses", "types", "timestamps", "closed_at", "deleted_at",
      "validate", "hash", "config", "prefix">>
    \o (IF c.in.ID = <<>> THEN <<"generate">>
        ELSE IF ~c.skipPrefixValidation THEN <<"validate_prefix">>
        ELSE <<>>)
    \o <<"insert", "event", "dirty">>

\* The errors with which a statement can end the call.
ErrorsOf(name) ==
    CASE name = "statuses" -> {ErrStatuses}
      [] name = "types" -> {ErrTypes}
      [] name = "validate" -> {ErrValidation}
      [] name = "config" -> {ErrNotInitialized, ErrConfig}
      [] name = "generate" -> {ErrGenerate}
      [] name = "validate_prefix" -> {ErrPrefix}
      [] name = "insert" -> {ErrInsert}
      [] name = "event" -> {ErrEvent}
      [] name = "dirty" -> {ErrDirty}
      [] OTHER -> {}

IsPrefixOf(s, full) ==
    /\ Len(s) <= Len(full)
    /\ \A i \in DOMAIN s : s[i] = full[i]

\* C16: the statements a call ran are an initial part of the fixed order
\* (fetches, repairs, validation, hash, config read, ID resolution, insert,
\* event, dirty marker): all of it when the call succeeded, and up to and
\* including the statement whose error is returned when it failed.  So the
\* event is attempted only after the insert succeeded and the marker only
\* after the event succeeded, and nothing runs after a failure.
C16_StatementsInOrder ==
    \A t \in TxIds :
        Returned(call[t]) =>
            LET c == call[t]
                n == Len(c.trace)
            IN  /\ n >= 1
                /\ IsPrefixOf(c.trace, StatementsOf(c))
                /\ c.err = Nil => c.trace = StatementsOf(c)
                /\ c.err # Nil => c.err \in ErrorsOf(c.trace[n])
                /\ InTrace(c, "event") =>
                     /\ c.trace[n] = "event" \/ c.trace[n] = "dirty"
                     /\ HasRow(c.conn, c.issue.ID)
                /\ InTrace(c, "dirty") =>
                     /\ c.trace[n] = "dirty"
                     /\ CreatedEvents(c.conn, c.issue.ID) = 1
                /\ ~InTrace(c, "insert") => c.conn = c.pre

\* the event write fails after the insert: the marker is never attempted
C16_Witness ==
    /\ Returned(call[1])
    /\ call[1].err = ErrEvent
    /\ call[1].trace[Len(call[1].trace)] = "event"
    /\ InTrace(call[1], "insert") /\ ~InTrace(call[1], "dirty")
    /\ HasRow(tx[1].conn, call[1].issue.ID)
    /\ call[1].issue.ID \notin tx[1].conn.dirty

VocabularyFetchFailed(c) ==
    /\ Returned(c)
    /\ c.fault \in {"statuses", "types"}

\* C17: when GetCustomStatuses or GetCustomTypes fails, the call returns
\* that fetch's error with the issue exactly as it was passed (timestamps
\* not defaulted, ClosedAt/DeletedAt not repaired, no hash, no ID) and with
\* nothing written to the store.
C17_FetchFailureTouchesNothing ==
    \A t \in TxIds :
        VocabularyFetchFailed(call[t]) =>
            LET c == call[t]
            IN  /\ c.err = IF c.fault = "statuses" THEN ErrStatuses
                           ELSE ErrTypes
                /\ c.cause = ErrStorage
                /\ c.trace = IF c.fault = "statuses" THEN <<"statuses">>
                             ELSE <<"statuses", "types">>
                /\ c.issue = c.in
                /\ NoWrites(c)
                /\ tx[t].conn = c.pre

\* the types fetch fails on a closed issue with nothing set: ClosedAt and
\* the timestamps stay unset
C17_Witness ==
    /\ VocabularyFetchFailed(call[1])
    /\ call[1].fault = "types"
    /\ call[1].in.Status = StatusClosed
    /\ call[1].in.CreatedAt = 0 /\ call[1].in.UpdatedAt = 0
    /\ call[1].in.ContentHash = <<>>
    /\ call[1].issue.ClosedAt = NilTime
    /\ call[1].issue.CreatedAt = 0
    /\ call[1].err = ErrTypes

\* C18: a ClosedAt, a DeletedAt, a ContentHash and an ID the caller supplied
\* are after the call what they were before it, whether the call succeeded
\* or failed, whatever the status, also when the supplied ClosedAt or
\* DeletedAt lies before CreatedAt and UpdatedAt.
C18_SuppliedValuesKept ==
    \A t \in TxIds :
        Returned(call[t]) =>
            LET c == call[t]
            IN  /\ c.in.ClosedAt # NilTime => c.issue.ClosedAt = c.in.ClosedAt
                /\ c.in.DeletedAt # NilTime =>
                     c.issue.DeletedAt = c.in.DeletedAt
                /\ c.in.ContentHash # <<>> =>
                     c.issue.ContentHash = c.in.ContentHash
                /\ c.in.ID # <<>> => c.issue.ID = c.in.ID

\* a closed issue is stored with the ClosedAt, hash and ID it came with, the
\* ClosedAt lying before its CreatedAt
C18_Witness ==
    /\ Returned(call[1]) /\ call[1].err = Nil
    /\ call[1].in.Status = StatusClosed
    /\ call[1].in.ClosedAt = <<1>> /\ call[1].in.CreatedAt = Now + 1
    /\ call[1].in.DeletedAt = <<1>>
    /\ call[1].in.ContentHash = <<"h0">>
    /\ call[1].in.ID = <<"zz", "1">>
    /\ call[1].issue = call[1].in
    /\ [id |-> <<"zz", "1">>, status |-> StatusClosed, closed_at |-> <<1>>,
        deleted_at |-> <<1>>] \in tx[1].conn.rows

\* The call c made again from the same stores with the same arguments but
\* the other value of skipPrefixValidation.
WithOtherFlag(c) ==
    CreateIssueImport(
        NewCall(c.in, c.actor, ~c.skipPrefixValidation, c.fault, c.config,
                c.pre, c.preDb, c.busy))

\* C19: for an issue that arrives without an ID, the call with the other
\* value of skipPrefixValidation, from the same store, returns the same
\* error, leaves the same issue value and makes the same writes.
C19_FlagIrrelevantWithoutID ==
    \A t \in TxIds :
        Returned(call[t]) /\ call[t].in.ID = <<>> =>
            LET c == call[t]
                o == WithOtherFlag(c)
            IN  /\ o.skipPrefixValidation # c.skipPrefixValidation
                /\ o.err = c.err
                /\ o.cause = c.cause
                /\ o.issue = c.issue
                /\ o.conn = c.conn
                /\ o.db = c.db
                /\ o.locked = c.locked
                /\ o.trace = c.trace

\* an ID is generated and the issue stored although the flag is set, next to
\* a row stored before
C19_Witness ==
    /\ Returned(call[1])
    /\ call[1].in.ID = <<>> /\ call[1].skipPrefixValidation
    /\ call[1].err = Nil
    /\ call[1].issue.ID = <<"bd", "2">>
    /\ HasRow(tx[1].conn, <<"bd", "2">>)
    /\ HasRow(call[1].pre, <<"bd", "1">>)

====
